---- MODULE Spec2Model ----
(***************************************************************************)
(* Model of source/linux/fb_tux.c: one process run of fb_tux after another *)
(* against a framebuffer device (/dev/fb0) and the console (/dev/tty0,     *)
(* /dev/console).  The device memory and the console's KD mode are kernel  *)
(* state and survive a run; fb_fd, tty_fd and fb_mmap_ptr are statics of   *)
(* the process and start at their initializers in every run.               *)
(*                                                                         *)
(* The surface is scaled: FB_WIDTH x FB_HEIGHT stands for 640 x 480, the   *)
(* logo for the 224 x 208 boot logo, margin for 20.  The proportions are   *)
(* kept: as in the source, the 4-column grid is wider than the surface     *)
(* (start_x is negative, the C division truncates, the leftmost column is  *)
(* partly clipped) and exactly two rows of logos fit.                      *)
(***************************************************************************)
EXTENDS Integers, Sequences, FiniteSets, TLC

VARIABLES
    pc,           \* position of the running process in main()
    mode,         \* argv[1], or "logo" when argc <= 1
    arg,          \* argv[2]: [has |-> argc > 2, val |-> atoi/strtol of it]
    fb,           \* device memory, word index |-> pixel <<A, R, G, B>>
    fb_start,     \* device memory when the run started
    fb_fd,        \* static int fb_fd
    fb_mmap_ptr,  \* static unsigned char *fb_mmap_ptr
    devOpen,      \* the process holds an open descriptor of /dev/fb0
    devMapped,    \* the process holds a mapping of /dev/fb0
    tty_fd,       \* static int tty_fd
    consoleMode,  \* KD mode of the console (kernel state)
    consoleStart, \* KD mode of the console when the run started
    status,       \* exit status of the run, -1 while it is running
    log,          \* system calls and renderers of this run, in order
    placed,       \* draw_official_logo calls made by draw_multiple_logos
    runs,         \* number of runs started so far
    px,           \* arguments of a put_pixel call under test
    bl            \* arguments and result of a blend_over call under test

vars == <<pc, mode, arg, fb, fb_start, fb_fd, fb_mmap_ptr, devOpen, devMapped,
          tty_fd, consoleMode, consoleStart, status, log, placed, runs, px, bl>>

(* ---------------------------------------------------------------- bounds *)
FB_WIDTH == 10
FB_HEIGHT == 6
LogoW == 3
LogoH == 2
Margin == 1
MaxCount == 9
MaxRuns == 2

(* ------------------------------------------------------------- constants *)
cols == 4

NPIX == FB_WIDTH * FB_HEIGHT
Surface == 0 .. (NPIX - 1)

TwoTo8 == 2 ^ 8
INT_MAX == (2 ^ 30 - 1) + 2 ^ 30
INT_MIN == (0 - INT_MAX) - 1

(* C integer division: truncates toward zero *)
CDiv(a, b) ==
    IF a >= 0 THEN a \div b ELSE 0 - ((0 - a) \div b)

CMod(a, b) == a - b * CDiv(a, b)

Min(a, b) == IF a <= b THEN a ELSE b
Max(a, b) == IF a >= b THEN a ELSE b

RECURSIVE BitOr(_, _)
BitOr(a, b) ==
    IF a = 0 THEN b
    ELSE IF b = 0 THEN a
    ELSE (IF (a % 2 = 1) \/ (b % 2 = 1) THEN 1 ELSE 0)
         + 2 * BitOr(a \div 2, b \div 2)

(* A uint32_t is the tuple of its four bytes, most significant first: a    *)
(* pixel 0xAARRGGBB is <<AA, RR, GG, BB>>.                                 *)
W32(a, r, g, b) == <<a, r, g, b>>

(* (uint32_t)v of an int or long v: the bytes of its two's complement *)
ToW32(v) ==
    [j \in 1 .. 4 |-> (v \div (2 ^ (8 * (4 - j)))) % TwoTo8]

(* v << n as a uint32_t, for 0 <= v < 2^16 and n in {0, 8, 16, 24}: bits   *)
(* of v above bit 31 - n are lost, bits above 7 land in the next byte up   *)
Shl(v, n) ==
    [j \in 1 .. 4 |->
        LET sh == 8 * (4 - j) - n
        IN  IF sh < 0 THEN 0 ELSE (v \div (2 ^ sh)) % TwoTo8]

(* (w >> n) & 0xFF for n in {0, 8, 16, 24} *)
Byte(w, n) == w[4 - (n \div 8)]

Or32(u, v) == [j \in 1 .. 4 |-> BitOr(u[j], v[j])]

OPAQUE == W32(255, 0, 0, 0)

(* a store of one 32-bit word through the mapping; an index outside the    *)
(* mapping extends the touched memory, so DOMAIN fb = Surface says that    *)
(* nothing outside the surface was ever written                            *)
Store(m, idx, color) == (idx :> color) @@ m

(* mutant: the right edge test is off by one *)
put_pixel_edge(m, x, y, color) ==
    IF x < 0 \/ x > FB_WIDTH \/ y < 0 \/ y >= FB_HEIGHT
    THEN m
    ELSE Store(m, (y * FB_WIDTH) + x, color)

(* ------------------------------------------------------ pixel primitives *)
put_pixel(m, x, y, color) ==
    IF x < 0 \/ x >= FB_WIDTH \/ y < 0 \/ y >= FB_HEIGHT
    THEN m
    ELSE Store(m, (y * FB_WIDTH) + x, color)

(* the memory after a loop whose body calls put_pixel: ws is the sequence  *)
(* of <<x, y, color>> in the order the loop produces them.  d(k) is what   *)
(* call k stores; a word holds what the last call that stored to it put    *)
(* there, or what it held before the loop                                  *)
MaxOf(S) == CHOOSE k \in S : \A j \in S : j <= k

put_pixels(m, ws) ==
    LET d(k) == put_pixel(<<>>, ws[k][1], ws[k][2], ws[k][3])
        touched == UNION {DOMAIN d(k) : k \in 1 .. Len(ws)}
    IN  [idx \in DOMAIN m \cup touched |->
            LET ks == {k \in 1 .. Len(ws) : idx \in DOMAIN d(k)}
            IN  IF ks = {} THEN m[idx] ELSE d(MaxOf(ks))[idx]]

(* mutant: the length is one word short *)
memset_short(m, byte) ==
    LET word == W32(byte, byte, byte, byte)
    IN  [i \in DOMAIN m |-> IF i \in 0 .. (NPIX - 2) THEN word ELSE m[i]]

memset(m, byte) ==
    LET word == W32(byte, byte, byte, byte)
    IN  [i \in DOMAIN m |-> IF i \in Surface THEN word ELSE m[i]]

draw_rect(m, x, y, w, h, color) ==
    LET n == Max(w, 0) * Max(h, 0)
        ws == [k \in 1 .. n |->
                 <<x + ((k - 1) % w), y + ((k - 1) \div w), color>>]
    IN  put_pixels(m, ws)

(* mutant: the inverse alpha is taken from 256 *)
blend_over_256(src, dst) ==
    LET sa == Byte(src, 24)
        inv_sa == 256 - sa
        ra == sa + ((Byte(dst, 24) * inv_sa) \div 255)
        rr == Byte(src, 16) + ((Byte(dst, 16) * inv_sa) \div 255)
        rg == Byte(src, 8) + ((Byte(dst, 8) * inv_sa) \div 255)
        rb == Byte(src, 0) + ((Byte(dst, 0) * inv_sa) \div 255)
    IN  Or32(Or32(Shl(ra, 24), Shl(rr, 16)), Or32(Shl(rg, 8), Shl(rb, 0)))

(* --------------------------------------------------------- alpha blending *)
blend_over(src, dst) ==
    LET sa == Byte(src, 24)
        sr == Byte(src, 16)
        sg == Byte(src, 8)
        sb == Byte(src, 0)
        da == Byte(dst, 24)
        dr == Byte(dst, 16)
        dg == Byte(dst, 8)
        db == Byte(dst, 0)
        inv_sa == 255 - sa
        ra == sa + ((da * inv_sa) \div 255)
        rr == sr + ((dr * inv_sa) \div 255)
        rg == sg + ((dg * inv_sa) \div 255)
        rb == sb + ((db * inv_sa) \div 255)
    IN  Or32(Or32(Shl(ra, 24), Shl(rr, 16)), Or32(Shl(rg, 8), Shl(rb, 0)))

(* ------------------------------------------------------------- renderers *)
draw_gradient_rgb(m) ==
    LET ws == [k \in 1 .. NPIX |->
                 LET x == (k - 1) % FB_WIDTH
                     y == (k - 1) \div FB_WIDTH
                     r == CDiv(x * 255, FB_WIDTH) % TwoTo8
                     g == CDiv(y * 255, FB_HEIGHT) % TwoTo8
                     b == CDiv((x + y) * 127, FB_WIDTH + FB_HEIGHT) % TwoTo8
                 IN  <<x, y, Or32(Or32(OPAQUE, Shl(r, 16)),
                                  Or32(Shl(g, 8), Shl(b, 0)))>>]
    IN  put_pixels(m, ws)

colors ==
    << W32(255, 255, 255, 255), W32(255, 255, 255, 0),
       W32(255, 0, 255, 255),   W32(255, 0, 255, 0),
       W32(255, 255, 0, 255),   W32(255, 255, 0, 0),
       W32(255, 0, 0, 255),     W32(255, 0, 0, 0) >>

RECURSIVE color_bars_loop(_, _)
color_bars_loop(m, i) ==
    LET bar_w == CDiv(FB_WIDTH, 8)
    IN  IF i >= 8 THEN m
        ELSE color_bars_loop(
                 draw_rect(m, i * bar_w, 0, bar_w, FB_HEIGHT, colors[i + 1]),
                 i + 1)

draw_color_bars(m) == color_bars_loop(m, 0)

(* the boot logo asset of logo_tux_data.h: LogoW x LogoH palette indices   *)
(* and a palette of RGB triples                                            *)
logo_linux_clut224_width == LogoW
logo_linux_clut224_height == LogoH
logo_linux_clut224_clut == << 255, 255, 255,   255, 165, 0,   0, 0, 0 >>
logo_linux_clut224_data(k) == k % 3

draw_official_logo(m, center_x, center_y) ==
    LET w == logo_linux_clut224_width
        h == logo_linux_clut224_height
        x == center_x - CDiv(w, 2)
        y == center_y - CDiv(h, 2)
        ws == [k \in 1 .. (w * h) |->
                 LET lx == (k - 1) % w
                     ly == (k - 1) \div w
                     idx == logo_linux_clut224_data(ly * w + lx)
                     r == logo_linux_clut224_clut[idx * 3 + 1]
                     g == logo_linux_clut224_clut[idx * 3 + 2]
                     b == logo_linux_clut224_clut[idx * 3 + 3]
                 IN  <<x + lx, y + ly,
                       Or32(Or32(OPAQUE, Shl(r, 16)),
                            Or32(Shl(g, 8), Shl(b, 0)))>>]
    IN  put_pixels(m, ws)

(* mutant: a row that ends on the last line is taken not to fit *)
tile_break_ge(y, logo_h) == y + logo_h >= FB_HEIGHT

(* the loop's exit test: this copy's row does not fit the surface height *)
tile_break(y, logo_h) == y + logo_h > FB_HEIGHT

(* the loop of draw_multiple_logos from copy i on; n counts the copies     *)
(* drawn so far                                                            *)
RECURSIVE multiple_logos_loop(_, _, _, _)
multiple_logos_loop(m, i, count, n) ==
    LET logo_w == logo_linux_clut224_width
        logo_h == logo_linux_clut224_height
        margin == Margin
        start_x == CDiv(FB_WIDTH - (logo_w * cols + margin * (cols - 1)), 2)
        start_y == margin
        row == CDiv(i, cols)
        col == CMod(i, cols)
        x == start_x + col * (logo_w + margin)
        y == start_y + row * (logo_h + margin)
    IN  IF ~(i < count) THEN [fb |-> m, placed |-> n]
        ELSE IF tile_break(y, logo_h) THEN [fb |-> m, placed |-> n]
        ELSE multiple_logos_loop(
                 draw_official_logo(m, x + CDiv(logo_w, 2), y + CDiv(logo_h, 2)),
                 i + 1, count, n + 1)

draw_multiple_logos(m, count) ==
    multiple_logos_loop(memset(m, 0), 0, count, 0)

(* draw_vector_tux.  Every shape is a scan of a bounding box around a      *)
(* point fixed relative to the surface centre, each hit written with       *)
(* put_pixel.  The scans are enumerated by their targets, over the surface *)
(* and a one-pixel border around it (targets further out are discarded by  *)
(* put_pixel all the same).  The ellipse tests of the source are in double *)
(* arithmetic; they are exact here, which agrees with the source wherever  *)
(* the sum is not within rounding of 1.0.                                  *)
WinW == FB_WIDTH + 2
WinSeq ==
    [k \in 1 .. (WinW * (FB_HEIGHT + 2)) |->
        <<((k - 1) % WinW) - 1, ((k - 1) \div WinW) - 1>>]

tux_cx == CDiv(FB_WIDTH, 2)
tux_cy == CDiv(FB_HEIGHT, 2)

tux_body(tx, ty) ==
    LET x == tx - tux_cx
        y == ty - tux_cy
    IN  /\ x \in -50 .. 50 /\ y \in -80 .. 80
        /\ 6400 * x * x + 2500 * y * y <= 2500 * 6400

tux_belly(tx, ty) ==
    LET x == tx - tux_cx
        y == ty - tux_cy - 10
    IN  /\ x \in -30 .. 30 /\ y \in -40 .. 60
        /\ 2500 * x * x + 900 * y * y <= 900 * 2500

tux_disc(tx, ty, ox, oy, rr) ==
    LET dx == tx - ox
        dy == ty - oy
    IN  /\ dx \in -8 .. 8 /\ dy \in -8 .. 8
        /\ dx * dx + dy * dy <= rr

tux_eye_white(tx, ty) ==
    \/ tux_disc(tx, ty, tux_cx - 20, tux_cy - 30, 64)
    \/ tux_disc(tx, ty, tux_cx + 20, tux_cy - 30, 64)

tux_eye_pupil(tx, ty) ==
    \/ tux_disc(tx, ty, tux_cx - 20, tux_cy - 28, 16)
    \/ tux_disc(tx, ty, tux_cx + 20, tux_cy - 28, 16)

tux_beak(tx, ty) ==
    LET x == tx - tux_cx
        y == ty - (tux_cy - 10)
    IN  /\ y \in 0 .. 9
        /\ x >= -8 + CDiv(y, 2) /\ x <= 8 - CDiv(y, 2)

tux_foot(tx, ty) ==
    \E foot \in 0 .. 1 :
        LET foot_x == tux_cx + (IF foot = 0 THEN -25 ELSE 25)
            foot_y == tux_cy + 75
        IN  \/ /\ ty - foot_y \in 0 .. 14
               /\ tx - foot_x \in -12 .. 12
            \/ \E toe \in 0 .. 2 :
                  /\ ty - (foot_y + 15) \in 0 .. 19
                  /\ tx - (foot_x + (toe - 1) * 10) \in -3 .. 3

tux_wing(tx, ty) ==
    \E wing \in 0 .. 1 :
        LET wing_x == tux_cx + (IF wing = 0 THEN -50 ELSE 50)
            dir == IF wing = 0 THEN -1 ELSE 1
            x == dir * (tx - wing_x)
            y == ty - tux_cy
        IN  /\ y \in -30 .. 30 /\ x \in 0 .. 24
            /\ 625 * y * y + 900 * x * x <= 900 * 625

tux_covers(shape, tx, ty) ==
    CASE shape = "body" -> tux_body(tx, ty)
      [] shape = "belly" -> tux_belly(tx, ty)
      [] shape = "pupil" -> tux_eye_pupil(tx, ty)
      [] shape = "eye" -> tux_eye_white(tx, ty)
      [] shape = "beak" -> tux_beak(tx, ty)
      [] shape = "foot" -> tux_foot(tx, ty)
      [] shape = "wing" -> tux_wing(tx, ty)

ShapeWrites(shape, color) ==
    LET sel == SelectSeq(WinSeq, LAMBDA p : tux_covers(shape, p[1], p[2]))
    IN  [k \in 1 .. Len(sel) |-> <<sel[k][1], sel[k][2], color>>]

(* a pupil pixel is written two scan rows before the white disc reaches    *)
(* the same target, so the white write is the later one                    *)
draw_vector_tux(m) ==
    LET white == W32(255, 255, 255, 255)
        black == W32(255, 0, 0, 0)
        orange == W32(255, 255, 165, 0)
    IN  put_pixels(m,
            ShapeWrites("body", black) \o ShapeWrites("belly", white)
            \o ShapeWrites("pupil", black) \o ShapeWrites("eye", white)
            \o ShapeWrites("beak", orange) \o ShapeWrites("foot", orange)
            \o ShapeWrites("wing", black))

(* the fill loop of main: every word of the surface, no bounds test *)
fill_loop(m, color) ==
    LET written == 0 .. (FB_WIDTH * FB_HEIGHT - 1)
    IN  [i \in DOMAIN m \cup written |->
            IF i \in written THEN color ELSE m[i]]

(* ------------------------------------------------------------ the inputs *)
Modes == {"logo", "tux", "color", "gradient", "clear", "fill", "text", "bogus"}
RenderModes == {"logo", "tux", "color", "gradient", "clear", "fill"}

NoArg == [has |-> FALSE, val |-> 0]

(* values strtol(argv[2], NULL, 16) returns: 0 for malformed hex, FF0000,  *)
(* and a value with bits above the 24 colour bits                          *)
FillVals == {0, 255 * 65536, 16777216 + 255}

ArgsOf(md) ==
    IF md = "logo"
    THEN {NoArg} \cup {[has |-> TRUE, val |-> n] : n \in -1 .. MaxCount}
    ELSE IF md = "fill"
    THEN {NoArg} \cup {[has |-> TRUE, val |-> v] : v \in FillVals}
    ELSE {NoArg}

(* what the device memory may hold when a run starts *)
InitSurfaces ==
    { [i \in Surface |-> W32(0, 0, 0, 0)],
      [i \in Surface |-> W32(255, i % 7, 0, i % TwoTo8)] }

NoPx == [x |-> 0, y |-> 0, color |-> W32(0, 0, 0, 0)]
NoBl == [src |-> W32(0, 0, 0, 0), dst |-> W32(0, 0, 0, 0),
         res |-> W32(0, 0, 0, 0)]

Call(name, ok) == [call |-> name, ok |-> ok]

Init ==
    /\ pc = "start"
    /\ mode \in Modes
    /\ arg \in ArgsOf(mode)
    /\ fb \in InitSurfaces
    /\ fb_start = fb
    /\ fb_fd = -1
    /\ fb_mmap_ptr = "NULL"
    /\ devOpen = FALSE
    /\ devMapped = FALSE
    /\ tty_fd = -1
    /\ consoleMode = "KD_TEXT"
    /\ consoleStart = "KD_TEXT"
    /\ status = -1
    /\ log = <<>>
    /\ placed = 0
    /\ runs = 1
    /\ px = NoPx
    /\ bl = NoBl

(* ------------------------------------------------------- main, by stages *)
(* mode "text": fbcon_restore(), return 0 *)
TextRestore ==
    /\ pc = "start"
    /\ mode = "text"
    /\ IF tty_fd >= 0
       THEN \E ok \in BOOLEAN :
              /\ consoleMode' = IF ok THEN "KD_TEXT" ELSE consoleMode
              /\ log' = log \o <<Call("KDSETMODE_TEXT", ok), Call("close_tty", TRUE)>>
              /\ tty_fd' = -1
       ELSE UNCHANGED <<consoleMode, log, tty_fd>>
    /\ status' = 0
    /\ pc' = "exit"
    /\ UNCHANGED <<mode, arg, fb, fb_start, fb_fd, fb_mmap_ptr, devOpen,
                   devMapped, consoleStart, placed, runs, px, bl>>

(* open("/dev/fb0"); the two screeninfo ioctls that follow only print *)
OpenFb ==
    /\ pc = "start"
    /\ mode # "text"
    /\ \E ok \in BOOLEAN :
         /\ log' = Append(log, Call("open_fb", ok))
         /\ IF ok
            THEN /\ fb_fd' = 3
                 /\ devOpen' = TRUE
                 /\ pc' = "map"
                 /\ UNCHANGED status
            ELSE /\ fb_fd' = -1
                 /\ status' = 1
                 /\ pc' = "exit"
                 /\ UNCHANGED devOpen
    /\ UNCHANGED <<mode, arg, fb, fb_start, fb_mmap_ptr, devMapped, tty_fd,
                   consoleMode, consoleStart, placed, runs, px, bl>>

(* mutant: the failure path returns without closing the device *)
MapFb_noclose ==
    /\ pc = "map"
    /\ \E ok \in BOOLEAN :
         IF ok
         THEN /\ log' = Append(log, Call("mmap", TRUE))
              /\ devMapped' = TRUE
              /\ fb_mmap_ptr' = "fb"
              /\ pc' = "suppress"
              /\ UNCHANGED <<devOpen, status>>
         ELSE /\ log' = Append(log, Call("mmap", FALSE))
              /\ status' = 1
              /\ pc' = "exit"
              /\ UNCHANGED <<devOpen, devMapped, fb_mmap_ptr>>
    /\ UNCHANGED <<mode, arg, fb, fb_start, fb_fd, tty_fd, consoleMode,
                   consoleStart, placed, runs, px, bl>>

(* mmap(); on MAP_FAILED close(fb_fd) and return 1 *)
MapFb ==
    /\ pc = "map"
    /\ \E ok \in BOOLEAN :
         IF ok
         THEN /\ log' = Append(log, Call("mmap", TRUE))
              /\ devMapped' = TRUE
              /\ fb_mmap_ptr' = "fb"
              /\ pc' = "suppress"
              /\ UNCHANGED <<devOpen, status>>
         ELSE /\ log' = log \o <<Call("mmap", FALSE), Call("close_fb", TRUE)>>
              /\ devOpen' = FALSE
              /\ status' = 1
              /\ pc' = "exit"
              /\ UNCHANGED <<devMapped, fb_mmap_ptr>>
    /\ UNCHANGED <<mode, arg, fb, fb_start, fb_fd, tty_fd, consoleMode,
                   consoleStart, placed, runs, px, bl>>

(* mutant: /dev/console is opened whether or not /dev/tty0 was *)
FbconDisable_both ==
    /\ pc = "suppress"
    /\ \E tty0, console, io \in BOOLEAN :
         LET opens == <<Call("open_tty0", tty0), Call("open_console", console)>>
             fd == IF tty0 \/ console THEN 4 ELSE -1
         IN  /\ tty_fd' = fd
             /\ IF fd >= 0
                THEN /\ log' = log \o opens \o <<Call("KDSETMODE_GRAPHICS", io)>>
                     /\ consoleMode' = IF io THEN "KD_GRAPHICS" ELSE consoleMode
                ELSE /\ log' = log \o opens
                     /\ UNCHANGED consoleMode
    /\ pc' = "render"
    /\ UNCHANGED <<mode, arg, fb, fb_start, fb_fd, fb_mmap_ptr, devOpen,
                   devMapped, consoleStart, status, placed, runs, px, bl>>

(* fbcon_disable() *)
FbconDisable ==
    /\ pc = "suppress"
    /\ \E tty0, console, io \in BOOLEAN :
         LET opens == IF tty0 THEN <<Call("open_tty0", TRUE)>>
                      ELSE <<Call("open_tty0", FALSE), Call("open_console", console)>>
             fd == IF tty0 \/ console THEN 4 ELSE -1
         IN  /\ tty_fd' = fd
             /\ IF fd >= 0
                THEN /\ log' = log \o opens \o <<Call("KDSETMODE_GRAPHICS", io)>>
                     /\ consoleMode' = IF io THEN "KD_GRAPHICS" ELSE consoleMode
                ELSE /\ log' = log \o opens
                     /\ UNCHANGED consoleMode
    /\ pc' = "render"
    /\ UNCHANGED <<mode, arg, fb, fb_start, fb_fd, fb_mmap_ptr, devOpen,
                   devMapped, consoleStart, status, placed, runs, px, bl>>

(* what a renderer leaves alone *)
RenderFrame ==
    /\ pc' = "flush"
    /\ UNCHANGED <<mode, arg, fb_start, fb_fd, fb_mmap_ptr, devOpen, devMapped,
                   tty_fd, consoleMode, consoleStart, status, runs, px, bl>>

(* mode "logo": atoi(argv[2]), 1 without it *)
RenderLogo ==
    /\ pc = "render"
    /\ mode = "logo"
    /\ LET count == IF arg.has THEN arg.val ELSE 1
       IN  IF count = 1
           THEN /\ fb' = draw_official_logo(memset(fb, 0),
                             CDiv(FB_WIDTH, 2), CDiv(FB_HEIGHT, 2))
                /\ log' = Append(log, Call("draw_official_logo", TRUE))
                /\ UNCHANGED placed
           ELSE LET r == draw_multiple_logos(fb, count)
                IN  /\ fb' = r.fb
                    /\ placed' = r.placed
                    /\ log' = Append(log, Call("draw_multiple_logos", TRUE))
    /\ RenderFrame

RenderTux ==
    /\ pc = "render"
    /\ mode = "tux"
    /\ fb' = draw_vector_tux(memset(fb, 64))
    /\ log' = Append(log, Call("draw_vector_tux", TRUE))
    /\ UNCHANGED placed
    /\ RenderFrame

RenderColor ==
    /\ pc = "render"
    /\ mode = "color"
    /\ fb' = draw_color_bars(fb)
    /\ log' = Append(log, Call("draw_color_bars", TRUE))
    /\ UNCHANGED placed
    /\ RenderFrame

RenderGradient ==
    /\ pc = "render"
    /\ mode = "gradient"
    /\ fb' = draw_gradient_rgb(fb)
    /\ log' = Append(log, Call("draw_gradient_rgb", TRUE))
    /\ UNCHANGED placed
    /\ RenderFrame

RenderClear ==
    /\ pc = "render"
    /\ mode = "clear"
    /\ fb' = memset(fb, 0)
    /\ log' = Append(log, Call("clear", TRUE))
    /\ UNCHANGED placed
    /\ RenderFrame

RenderFill ==
    /\ pc = "render"
    /\ mode = "fill"
    /\ LET color == IF arg.has
                    THEN Or32(OPAQUE, ToW32(arg.val))
                    ELSE OPAQUE
       IN  fb' = fill_loop(fb, color)
    /\ log' = Append(log, Call("fill", TRUE))
    /\ UNCHANGED placed
    /\ RenderFrame

(* mutant: the unknown-mode path returns 0 *)
UnknownMode_ret0 ==
    /\ pc = "render"
    /\ mode \notin RenderModes
    /\ log' = log \o <<Call("munmap", TRUE), Call("close_fb", TRUE)>>
    /\ devMapped' = FALSE
    /\ devOpen' = FALSE
    /\ status' = 0
    /\ pc' = "exit"
    /\ UNCHANGED <<mode, arg, fb, fb_start, fb_fd, fb_mmap_ptr, tty_fd,
                   consoleMode, consoleStart, placed, runs, px, bl>>

(* mutant: the unknown-mode path clears the surface before it returns *)
UnknownMode_clears ==
    /\ pc = "render"
    /\ mode \notin RenderModes
    /\ fb' = memset(fb, 0)
    /\ log' = log \o <<Call("munmap", TRUE), Call("close_fb", TRUE)>>
    /\ devMapped' = FALSE
    /\ devOpen' = FALSE
    /\ status' = 1
    /\ pc' = "exit"
    /\ UNCHANGED <<mode, arg, fb_start, fb_fd, fb_mmap_ptr, tty_fd,
                   consoleMode, consoleStart, placed, runs, px, bl>>

(* the final else of the mode chain: usage, munmap, close, return 1 *)
UnknownMode ==
    /\ pc = "render"
    /\ mode \notin RenderModes
    /\ log' = log \o <<Call("munmap", TRUE), Call("close_fb", TRUE)>>
    /\ devMapped' = FALSE
    /\ devOpen' = FALSE
    /\ status' = 1
    /\ pc' = "exit"
    /\ UNCHANGED <<mode, arg, fb, fb_start, fb_fd, fb_mmap_ptr, tty_fd,
                   consoleMode, consoleStart, placed, runs, px, bl>>

(* mutant: fb_flush returns as soon as a call fails *)
FbFlush_bail ==
    /\ pc = "flush"
    /\ \E ms, fs, get, pan, vs \in BOOLEAN :
         log' = log \o <<Call("msync", ms)>>
                    \o (IF ms THEN <<Call("fsync", fs)>> ELSE <<>>)
                    \o (IF ms /\ fs
                        THEN <<Call("FBIOGET_VSCREENINFO", get)>> ELSE <<>>)
                    \o (IF ms /\ fs /\ get
                        THEN <<Call("FBIOPAN_DISPLAY", pan)>> ELSE <<>>)
                    \o (IF ms /\ fs /\ get /\ pan
                        THEN <<Call("FBIO_WAITFORVSYNC", vs)>> ELSE <<>>)
    /\ pc' = "cleanup"
    /\ UNCHANGED <<mode, arg, fb, fb_start, fb_fd, fb_mmap_ptr, devOpen,
                   devMapped, tty_fd, consoleMode, consoleStart, status,
                   placed, runs, px, bl>>

(* fb_flush(): the results of msync, fsync, FBIOPAN_DISPLAY and            *)
(* FBIO_WAITFORVSYNC are dropped; FBIOPAN_DISPLAY is issued only when      *)
(* FBIOGET_VSCREENINFO returned 0                                          *)
FbFlush ==
    /\ pc = "flush"
    /\ IF fb_fd < 0 \/ fb_mmap_ptr = "NULL" \/ fb_mmap_ptr = "MAP_FAILED"
       THEN UNCHANGED log
       ELSE \E ms, fs, get, pan, vs \in BOOLEAN :
              log' = log \o <<Call("msync", ms), Call("fsync", fs),
                              Call("FBIOGET_VSCREENINFO", get)>>
                         \o (IF get THEN <<Call("FBIOPAN_DISPLAY", pan)>>
                             ELSE <<>>)
                         \o <<Call("FBIO_WAITFORVSYNC", vs)>>
    /\ pc' = "cleanup"
    /\ UNCHANGED <<mode, arg, fb, fb_start, fb_fd, fb_mmap_ptr, devOpen,
                   devMapped, tty_fd, consoleMode, consoleStart, status,
                   placed, runs, px, bl>>

(* munmap, close, fb_fd = -1, return 0 *)
Cleanup ==
    /\ pc = "cleanup"
    /\ log' = log \o <<Call("munmap", TRUE), Call("close_fb", TRUE)>>
    /\ devMapped' = FALSE
    /\ devOpen' = FALSE
    /\ fb_fd' = -1
    /\ status' = 0
    /\ pc' = "exit"
    /\ UNCHANGED <<mode, arg, fb, fb_start, fb_mmap_ptr, tty_fd, consoleMode,
                   consoleStart, placed, runs, px, bl>>

(* the process is gone and fb_tux is started again: the statics are back   *)
(* at their initializers, the kernel has dropped what the process held,    *)
(* the device memory and the console mode are as the last run left them    *)
NextRun ==
    /\ pc = "exit"
    /\ runs < MaxRuns
    /\ runs' = runs + 1
    /\ pc' = "start"
    /\ mode' \in Modes
    /\ arg' \in ArgsOf(mode')
    /\ fb_start' = fb
    /\ fb_fd' = -1
    /\ fb_mmap_ptr' = "NULL"
    /\ devOpen' = FALSE
    /\ devMapped' = FALSE
    /\ tty_fd' = -1
    /\ consoleStart' = consoleMode
    /\ status' = -1
    /\ log' = <<>>
    /\ placed' = 0
    /\ UNCHANGED <<fb, consoleMode, px, bl>>

Next ==
    \/ TextRestore
    \/ OpenFb
    \/ MapFb
    \/ FbconDisable
    \/ RenderLogo
    \/ RenderTux
    \/ RenderColor
    \/ RenderGradient
    \/ RenderClear
    \/ RenderFill
    \/ UnknownMode
    \/ FbFlush
    \/ Cleanup
    \/ NextRun

Spec == Init /\ [][Next]_vars

TypeOK ==
    /\ pc \in {"start", "map", "suppress", "render", "flush", "cleanup", "exit",
              "put_pixel", "put_pixel_done", "blend_over", "blend_over_done"}
    /\ status \in {-1, 0, 1}
    /\ DOMAIN fb = Surface
    /\ \A i \in Surface : fb[i] \in [1 .. 4 -> 0 .. 255]

(* ------------------------------------------- put_pixel on arbitrary input *)
PixXs == {INT_MIN, -2, -1, INT_MAX} \cup (0 .. (FB_WIDTH + 1))
PixYs == {INT_MIN, -2, -1, INT_MAX} \cup (0 .. (FB_HEIGHT + 1))
PixColors == {W32(255, 255, 0, 0), W32(0, 0, 0, 0)}

Idle ==
    /\ mode = "none"
    /\ arg = NoArg
    /\ fb_fd = 3
    /\ fb_mmap_ptr = "fb"
    /\ devOpen = TRUE
    /\ devMapped = TRUE
    /\ tty_fd = -1
    /\ consoleMode = "KD_TEXT"
    /\ consoleStart = "KD_TEXT"
    /\ status = -1
    /\ log = <<>>
    /\ placed = 0
    /\ runs = 1

InitPix ==
    /\ pc = "put_pixel"
    /\ fb \in InitSurfaces
    /\ fb_start = fb
    /\ px \in [x : PixXs, y : PixYs, color : PixColors]
    /\ bl = NoBl
    /\ Idle

PutPixelCall ==
    /\ pc = "put_pixel"
    /\ fb' = put_pixel(fb, px.x, px.y, px.color)
    /\ pc' = "put_pixel_done"
    /\ UNCHANGED <<mode, arg, fb_start, fb_fd, fb_mmap_ptr, devOpen, devMapped,
                   tty_fd, consoleMode, consoleStart, status, log, placed,
                   runs, px, bl>>

NextPix == PutPixelCall

SpecPix == InitPix /\ [][NextPix]_vars

(* ------------------------------------------ blend_over on arbitrary input *)
BlendSrcs ==
    {W32(a, r, g, b) : a \in {0, 128, 255}, r \in {0, 1, 255},
                       g \in {0, 255}, b \in {0, 255}}
BlendDsts ==
    {W32(a, r, g, b) : a \in {0, 254, 255}, r \in {0, 1, 255},
                       g \in {0, 7, 255}, b \in {0, 255}}

InitBlend ==
    /\ pc = "blend_over"
    /\ fb \in {[i \in Surface |-> W32(0, 0, 0, 0)]}
    /\ fb_start = fb
    /\ px = NoPx
    /\ bl \in {[src |-> s, dst |-> d, res |-> W32(0, 0, 0, 0)] :
                  s \in BlendSrcs, d \in BlendDsts}
    /\ Idle

BlendCall ==
    /\ pc = "blend_over"
    /\ bl' = [bl EXCEPT !.res = blend_over(bl.src, bl.dst)]
    /\ pc' = "blend_over_done"
    /\ UNCHANGED <<mode, arg, fb, fb_start, fb_fd, fb_mmap_ptr, devOpen,
                   devMapped, tty_fd, consoleMode, consoleStart, status, log,
                   placed, runs, px>>

NextBlend == BlendCall

SpecBlend == InitBlend /\ [][NextBlend]_vars

(* ================================================================ claims *)
Exited == pc = "exit"

At(name) == {i \in DOMAIN log : log[i].call = name}
Count(name) == Cardinality(At(name))
Has(name) == At(name) # {}
Ok(name) == \E i \in At(name) : log[i].ok
Failed(name) == \E i \in At(name) : ~log[i].ok
Pos(name) == CHOOSE i \in At(name) : TRUE
Before(a, b) == \A i \in At(a) : \A j \in At(b) : i < j

Renderers ==
    {"draw_official_logo", "draw_multiple_logos", "draw_vector_tux",
     "draw_color_bars", "draw_gradient_rgb", "clear", "fill"}
PresentCalls ==
    {"msync", "fsync", "FBIOGET_VSCREENINFO", "FBIOPAN_DISPLAY",
     "FBIO_WAITFORVSYNC"}
Rendered == \E i \in DOMAIN log : log[i].call \in Renderers
Presented == \E i \in DOMAIN log : log[i].call \in PresentCalls

(* C1: a run exits 0 exactly when its request is `text`, or is a render    *)
(* request and the device was opened and mapped; it exits 1 exactly when   *)
(* the open failed, the mapping failed or the request is unrecognized.     *)
(* The outcomes of the console calls and of the Present calls do not occur *)
(* in the condition.                                                       *)
C1_ExitStatus ==
    Exited =>
      /\ status \in {0, 1}
      /\ status = 0 <=>
            \/ mode = "text"
            \/ mode \in RenderModes /\ Ok("open_fb") /\ Ok("mmap")
      /\ status = 1 <=>
            \/ Failed("open_fb")
            \/ Failed("mmap")
            \/ mode \notin (RenderModes \cup {"text"})

C1_Witness ==
    /\ Exited
    /\ status = 0
    /\ Failed("open_tty0") /\ Failed("open_console")
    /\ Failed("msync") /\ Failed("fsync")
    /\ Failed("FBIOGET_VSCREENINFO") /\ Failed("FBIO_WAITFORVSYNC")

(* C2: on every path on which /dev/fb0 was opened, at exit the descriptor  *)
(* has been closed (one close call, after the open) and the buffer, if it  *)
(* was mapped, has been unmapped (one munmap call, before the close).      *)
C2_ReleaseBeforeExit ==
    Exited =>
      /\ ~devOpen
      /\ ~devMapped
      /\ Ok("open_fb") => Count("close_fb") = 1
      /\ Ok("mmap") => Count("munmap") = 1 /\ Before("munmap", "close_fb")

C2_Witness ==
    Exited /\ Ok("open_fb") /\ Failed("mmap") /\ Has("close_fb")

(* C3: during and after a run whose request is `text` or unrecognized the  *)
(* surface equals the surface at the start of the run, no renderer and no  *)
(* Present call has run, and an unrecognized request that got the device   *)
(* mapped ends with munmap, close, exit status 1.                          *)
C3_NoWriteNoPresent ==
    mode \notin RenderModes =>
      /\ fb = fb_start
      /\ ~Rendered
      /\ ~Presented
      /\ (Exited /\ mode # "text" /\ Ok("mmap")) =>
            /\ status = 1
            /\ Len(log) >= 2
            /\ log[Len(log) - 1].call = "munmap"
            /\ log[Len(log)].call = "close_fb"

C3_Witness ==
    /\ Exited
    /\ mode = "bogus"
    /\ Ok("mmap")
    /\ status = 1
    /\ \E i \in Surface : fb[i] # W32(0, 0, 0, 0)

(* C4: a `text` run that starts with the console in graphics mode (left so *)
(* by an earlier run's fbcon_disable) issues KDSETMODE KD_TEXT and leaves  *)
(* the console in text mode.                                               *)
C4_TextRestoresConsole ==
    (Exited /\ mode = "text" /\ consoleStart = "KD_GRAPHICS") =>
      /\ Has("KDSETMODE_TEXT")
      /\ consoleMode = "KD_TEXT"

(* C5, as stated: after a `clear` run that opened and mapped the device    *)
(* every pixel is 0xFF000000.                                              *)
C5_ClearOpaqueBlack ==
    (Exited /\ mode = "clear" /\ status = 0) =>
      \A i \in Surface : fb[i] = W32(255, 0, 0, 0)

(* C5, amended: after a `clear` run that opened and mapped the device      *)
(* every pixel is 0x00000000: red, green and blue bytes 0 and the top byte *)
(* 0 as well, whatever the surface held before.                            *)
C5_ClearAllZero ==
    (Exited /\ mode = "clear" /\ status = 0) =>
      /\ DOMAIN fb = Surface
      /\ \A i \in Surface : fb[i] = W32(0, 0, 0, 0)

C5_Witness ==
    /\ Exited /\ mode = "clear" /\ status = 0
    /\ \A i \in Surface : fb_start[i] # W32(0, 0, 0, 0)

(* C6: put_pixel(fb, x, y, color) with (x, y) outside                      *)
(* [0,FB_WIDTH) x [0,FB_HEIGHT) leaves the memory as it was; with (x, y)   *)
(* inside, the memory differs from before in the word y*FB_WIDTH + x only, *)
(* which holds color.  Nothing outside the surface is written.             *)
C6_SetPixel ==
    pc = "put_pixel_done" =>
      IF px.x \in 0 .. (FB_WIDTH - 1) /\ px.y \in 0 .. (FB_HEIGHT - 1)
      THEN /\ DOMAIN fb = Surface
           /\ fb[px.y * FB_WIDTH + px.x] = px.color
           /\ \A i \in Surface :
                 i # px.y * FB_WIDTH + px.x => fb[i] = fb_start[i]
      ELSE fb = fb_start

C6_Witness ==
    /\ pc = "put_pixel_done"
    /\ px.x < 0
    /\ px.y \in 0 .. (FB_HEIGHT - 1)
    /\ \A i \in Surface : fb_start[i] # px.color
    /\ fb = fb_start

(* C7, as stated: blend_over(src, dst) = dst for every src whose alpha     *)
(* byte is 0, whatever its red, green and blue bytes.                      *)
C7_ZeroAlphaIdentity ==
    (pc = "blend_over_done" /\ Byte(bl.src, 24) = 0) => bl.res = bl.dst

(* C7, amended: for every dst and every src whose alpha byte is 0,         *)
(* blend_over(src, dst) = dst exactly when the red, green and blue bytes   *)
(* of src are 0 too (src = 0x00000000).                                    *)
C7_ZeroSourceIdentity ==
    (pc = "blend_over_done" /\ Byte(bl.src, 24) = 0) =>
      (bl.res = bl.dst <=> bl.src = W32(0, 0, 0, 0))

C7_Witness ==
    /\ pc = "blend_over_done"
    /\ bl.src = W32(0, 0, 0, 0)
    /\ bl.dst = W32(254, 1, 7, 255)
    /\ bl.res = bl.dst

(* the grid of the claim: 4 columns, copy i at row i/4 and column i%4, the *)
(* grid centred horizontally, one margin above the first row               *)
GridLeft == CDiv(FB_WIDTH - (4 * LogoW + 3 * Margin), 2)
TileX(i) == GridLeft + (i % 4) * (LogoW + Margin)
TileY(i) == Margin + (i \div 4) * (LogoH + Margin)
RowsFit ==
    Cardinality({r \in 0 .. FB_HEIGHT :
                    Margin + r * (LogoH + Margin) + LogoH <= FB_HEIGHT})

LogoPixel(lx, ly) ==
    LET idx == logo_linux_clut224_data(ly * LogoW + lx)
    IN  W32(255, logo_linux_clut224_clut[idx * 3 + 1],
                 logo_linux_clut224_clut[idx * 3 + 2],
                 logo_linux_clut224_clut[idx * 3 + 3])

(* the surface holding copies 0 .. n-1 on a cleared background *)
TiledPicture(n) ==
    [p \in Surface |->
        LET tx == p % FB_WIDTH
            ty == p \div FB_WIDTH
            over == {i \in 0 .. (n - 1) :
                        /\ tx - TileX(i) \in 0 .. (LogoW - 1)
                        /\ ty - TileY(i) \in 0 .. (LogoH - 1)}
        IN  IF over = {} THEN W32(0, 0, 0, 0)
            ELSE LogoPixel(tx - TileX(MaxOf(over)), ty - TileY(MaxOf(over)))]

TiledRun == Exited /\ Has("draw_multiple_logos")

(* C8, as stated: draw_multiple_logos with count N places                  *)
(* min(N, 4 * rows that fit) copies, copy i at row i/4 and column i%4, and *)
(* writes nothing outside the surface.                                     *)
C8_TilesPlacedMin ==
    TiledRun =>
      /\ placed = Min(arg.val, 4 * RowsFit)
      /\ fb = TiledPicture(placed)

(* C8, amended: for N >= 0 the number of copies placed is                  *)
(* min(N, 4 * rows that fit), and a negative N places none; copy i is at   *)
(* row i/4 and column i%4; fewer than N copies are placed whenever N > 4 * *)
(* rows that fit; nothing outside the surface is written.                  *)
C8_TilesPlaced ==
    TiledRun =>
      /\ placed = Min(Max(arg.val, 0), 4 * RowsFit)
      /\ arg.val > 4 * RowsFit => placed < arg.val
      /\ DOMAIN fb = Surface
      /\ fb = TiledPicture(placed)

C8_Witness ==
    /\ TiledRun
    /\ placed > 0
    /\ placed < arg.val
    /\ \E i \in Surface : fb[i] # W32(0, 0, 0, 0)

(* C9: a run with a render request whose open and mmap succeed makes the   *)
(* Present calls once each, after its renderer and before munmap and       *)
(* close: msync, fsync, FBIOGET_VSCREENINFO (with FBIOPAN_DISPLAY after it *)
(* when it succeeded: the forced offset re-apply), FBIO_WAITFORVSYNC, in   *)
(* this order whatever each of them returned, and exits 0.  No other run   *)
(* makes a Present call.                                                   *)
C9_PresentOnce ==
    Exited =>
      IF mode \in RenderModes /\ Ok("mmap")
      THEN /\ status = 0
           /\ Cardinality({i \in DOMAIN log : log[i].call \in Renderers}) = 1
           /\ Count("msync") = 1
           /\ Count("fsync") = 1
           /\ Count("FBIOGET_VSCREENINFO") = 1
           /\ Count("FBIOPAN_DISPLAY") = (IF Ok("FBIOGET_VSCREENINFO") THEN 1 ELSE 0)
           /\ Count("FBIO_WAITFORVSYNC") = 1
           /\ \A i \in DOMAIN log : log[i].call \in Renderers => i < Pos("msync")
           /\ Pos("msync") < Pos("fsync")
           /\ Pos("fsync") < Pos("FBIOGET_VSCREENINFO")
           /\ Before("FBIOGET_VSCREENINFO", "FBIOPAN_DISPLAY")
           /\ Before("FBIOPAN_DISPLAY", "FBIO_WAITFORVSYNC")
           /\ Pos("FBIOGET_VSCREENINFO") < Pos("FBIO_WAITFORVSYNC")
           /\ Before("FBIO_WAITFORVSYNC", "munmap")
           /\ Before("munmap", "close_fb")
           /\ ~devOpen /\ ~devMapped
      ELSE ~Presented

C9_Witness ==
    /\ Exited
    /\ status = 0
    /\ Failed("msync") /\ Failed("fsync")
    /\ Ok("FBIOGET_VSCREENINFO") /\ Failed("FBIOPAN_DISPLAY")
    /\ Failed("FBIO_WAITFORVSYNC")
    /\ Has("munmap") /\ Has("close_fb")

(* C10: the console calls of fbcon_disable are made only after a           *)
(* successful mmap and never in a `text` run: one open of /dev/tty0, one   *)
(* open of /dev/console exactly when the first failed, one KDSETMODE       *)
(* KD_GRAPHICS exactly when one of the opens succeeded; when both opens    *)
(* fail a run with a render request still renders, presents, releases and  *)
(* exits 0.                                                                *)
C10_SuppressOverlay ==
    /\ (Has("open_tty0") \/ Has("open_console") \/ Has("KDSETMODE_GRAPHICS")) =>
          /\ mode # "text"
          /\ Ok("mmap")
          /\ Before("mmap", "open_tty0")
    /\ Count("open_tty0") <= 1
    /\ (Ok("mmap") /\ pc # "suppress") => Count("open_tty0") = 1
    /\ Count("open_console") = (IF Failed("open_tty0") THEN 1 ELSE 0)
    /\ Count("KDSETMODE_GRAPHICS") =
          (IF Ok("open_tty0") \/ Ok("open_console") THEN 1 ELSE 0)
    /\ Before("open_tty0", "open_console")
    /\ Before("open_tty0", "KDSETMODE_GRAPHICS")
    /\ Before("open_console", "KDSETMODE_GRAPHICS")
    /\ (Exited /\ mode \in RenderModes
          /\ Failed("open_tty0") /\ Failed("open_console")) =>
          /\ consoleMode = consoleStart
          /\ Rendered
          /\ Presented
          /\ Has("munmap") /\ Has("close_fb")
          /\ status = 0

C10_Witness ==
    /\ Exited
    /\ mode \in RenderModes
    /\ Failed("open_tty0") /\ Failed("open_console")
    /\ ~Has("KDSETMODE_GRAPHICS")
    /\ status = 0

====
